---------------------------- MODULE Spec2Model ----------------------------
(***************************************************************************)
(* Aligned allocation of mimalloc (src/alloc-aligned.c) as a state machine. *)
(*                                                                         *)
(* The heap is a set of block slots.  Every exposed function of the file   *)
(* is an operator from a heap (plus the answer of the base allocator for   *)
(* this call, the "oracle") to a result record [h, ret, path]; every       *)
(* action applies one exposed function to the heap.                        *)
(*                                                                         *)
(* Memory contents are kept per block as run-length sequences              *)
(* << <<len, byte>>, ... >>, so that blocks of 2^25 bytes stay small.      *)
(*                                                                         *)
(* size_t / uintptr_t are 30 bits wide here (SIZE_MOD = 2^30) instead of   *)
(* 64: every other constant has its 64-bit value.                          *)
(***************************************************************************)
EXTENDS Integers, Sequences, FiniteSets, TLC

VARIABLES
  MI_PADDING,   \* build configuration: TRUE iff the build has MI_PADDING
  heap,         \* the base allocator's blocks and their contents
  last,         \* the last call of an exposed function: arguments and result
  nreallocs     \* number of reallocation calls made so far

vars == <<MI_PADDING, heap, last, nreallocs>>

----------------------------------------------------------------------------
(* Bounds of the model *)

MaxBlocks == 2
MaxReallocs == 1

Slots == 1 .. MaxBlocks

----------------------------------------------------------------------------
(* Program constants (mimalloc-types.h, 64-bit build; size_t scaled) *)

NULL == 0
SIZE_MOD == 1073741824
SIZE_MAX == SIZE_MOD - 1
PTRDIFF_MAX == (SIZE_MOD \div 2) - 1
MI_INTPTR_SIZE == 8
MI_MAX_ALIGN_SIZE == 16
MI_SMALL_SIZE_MAX == 1024
MI_MEDIUM_OBJ_SIZE_MAX == 131072
MI_ALIGNMENT_MAX == 16777216
MI_PADDING_SIZE == IF MI_PADDING THEN 8 ELSE 0
MI_DEBUG_UNINIT == 208
ARENA_SIZE == 67108864

----------------------------------------------------------------------------
(* Integer helpers *)

Min(a, b) == IF a < b THEN a ELSE b
Max(a, b) == IF a > b THEN a ELSE b

RECURSIVE BitAnd(_, _)
BitAnd(a, b) ==
  IF a = 0 \/ b = 0 THEN 0
  ELSE 2 * BitAnd(a \div 2, b \div 2) + (IF a % 2 = 1 /\ b % 2 = 1 THEN 1 ELSE 0)

\* (x & (x - 1)) == 0 on size_t: true of 0 as well
_mi_is_power_of_two(x) == BitAnd(x, (x - 1) % SIZE_MOD) = 0

RECURSIVE Pow2Divisor(_)
Pow2Divisor(n) == IF n = 0 \/ n % 2 = 1 THEN 1 ELSE 2 * Pow2Divisor(n \div 2)

AlignUp(x, a) == ((x + a - 1) \div a) * a

\* mi_count_size_overflow: <<overflow, total>>
mi_count_size_overflow(count, size) ==
  IF count = 1 THEN <<FALSE, size>>
  ELSE IF size > 0 /\ count > SIZE_MAX \div size THEN <<TRUE, SIZE_MAX>>
  ELSE <<FALSE, count * size>>

----------------------------------------------------------------------------
(* Memory contents as runs *)

Fill(n, v) == IF n <= 0 THEN <<>> ELSE << <<n, v>> >>

RECURSIVE DataLen(_)
DataLen(d) == IF d = <<>> THEN 0 ELSE Head(d)[1] + DataLen(Tail(d))

RECURSIVE Take(_, _)
Take(d, n) ==
  IF n <= 0 \/ d = <<>> THEN <<>>
  ELSE IF Head(d)[1] <= n THEN <<Head(d)>> \o Take(Tail(d), n - Head(d)[1])
  ELSE << <<n, Head(d)[2]>> >>

RECURSIVE Drop(_, _)
Drop(d, n) ==
  IF n <= 0 \/ d = <<>> THEN d
  ELSE IF Head(d)[1] <= n THEN Drop(Tail(d), n - Head(d)[1])
  ELSE << <<Head(d)[1] - n, Head(d)[2]>> >> \o Tail(d)

Cat(a, b) ==
  IF a = <<>> THEN b
  ELSE IF b = <<>> THEN a
  ELSE IF a[Len(a)][2] = b[1][2]
    THEN SubSeq(a, 1, Len(a) - 1) \o << <<a[Len(a)][1] + b[1][1], b[1][2]>> >> \o Tail(b)
  ELSE a \o b

\* the bytes [from, from + n) of d
Slice(d, from, n) == Take(Drop(d, from), n)

\* d with the bytes [at, at + DataLen(src)) replaced by src
Store(d, at, src) == Cat(Cat(Take(d, at), src), Drop(d, at + DataLen(src)))

AllZero(d) == \A i \in 1 .. Len(d) : d[i][2] = 0

----------------------------------------------------------------------------
(* The base allocator: blocks, and what this file assumes of it *)

NoBlock ==
  [st |-> "unused", start |-> 0, usable |-> 0, data |-> <<>>, ptr |-> 0,
   has_aligned |-> FALSE, is_zero |-> FALSE, frees |-> 0]

EmptyHeap == [blk |-> [s \in Slots |-> NoBlock], oob |-> FALSE]

\* the answers the base allocator may give to one call
Oracle(Offs, Slacks, Zeros, Probes) ==
  [fail : {FALSE}, off : Offs, slack : Slacks, is_zero : Zeros, probe : Probes]
    \cup {[fail |-> TRUE, off |-> 0, slack |-> 0, is_zero |-> FALSE, probe |-> FALSE]}

Ret(h, p, path) == [h |-> h, ret |-> p, path |-> path]

FreeSlot(h) ==
  IF \E s \in Slots : h.blk[s].st = "unused"
    THEN CHOOSE s \in Slots :
           /\ h.blk[s].st = "unused"
           /\ \A t \in Slots : h.blk[t].st = "unused" => s <= t
    ELSE 0

\* the slot of the block that pointer p was handed out for (0: none)
SlotOf(h, p) ==
  IF \E s \in Slots : h.blk[s].st # "unused" /\ h.blk[s].ptr = p
    THEN CHOOSE s \in Slots : h.blk[s].st # "unused" /\ h.blk[s].ptr = p
    ELSE 0

\* alignment the base allocator gives a block of padsize bytes: the word size,
\* MI_MAX_ALIGN_SIZE above one word, and the block size's own power-of-two
\* factor up to medium objects
BaseAlign(padsize) ==
  Max(IF padsize > MI_INTPTR_SIZE THEN MI_MAX_ALIGN_SIZE ELSE MI_INTPTR_SIZE,
      IF padsize <= MI_MEDIUM_OBJ_SIZE_MAX THEN Pow2Divisor(padsize) ELSE 1)

BaseAddr(s, o, padsize) == AlignUp(s * ARENA_SIZE + o.off, BaseAlign(padsize))

\* a live block at p
Block(p, usable, byte, is_zero) ==
  [st |-> "live", start |-> p, usable |-> usable, data |-> Fill(usable, byte), ptr |-> p,
   has_aligned |-> FALSE, is_zero |-> is_zero, frees |-> 0]

\* room up to the first multiple of huge_alignment inside a dedicated huge page
HugeRoom(p, huge_alignment) ==
  IF huge_alignment > 0 THEN AlignUp(p, huge_alignment) - p ELSE 0

\* the base allocator hands out slot s at p: zeroed when asked or when the page
\* is fresh (is_zero), uninitialized otherwise
NewBlock(h, s, p, size, zero, huge_alignment, o) ==
  Ret([h EXCEPT !.blk[s] =
         Block(p, HugeRoom(p, huge_alignment) + size + o.slack,
               IF zero \/ o.is_zero THEN 0 ELSE MI_DEBUG_UNINIT + s, o.is_zero)],
      p, "base")

_mi_heap_malloc_zero_ex(h, size, zero, huge_alignment, o) ==
  IF o.fail \/ FreeSlot(h) = 0 \/ size > PTRDIFF_MAX
    THEN Ret(h, NULL, "oom")
    ELSE NewBlock(h, FreeSlot(h), BaseAddr(FreeSlot(h), o, size + MI_PADDING_SIZE),
                  size, zero, huge_alignment, o)

_mi_heap_malloc_zero(h, size, zero, o) == _mi_heap_malloc_zero_ex(h, size, zero, 0, o)

mi_heap_malloc_small(h, size, o) == _mi_heap_malloc_zero(h, size, FALSE, o)

mi_heap_malloc(h, size, o) == _mi_heap_malloc_zero(h, size, FALSE, o)

\* page->free of _mi_heap_get_free_small_page(heap, padsize)
PageFree(h, padsize, o) ==
  IF o.probe /\ FreeSlot(h) # 0 THEN BaseAddr(FreeSlot(h), o, padsize) ELSE NULL

_mi_page_malloc(h, padsize, zero, o) ==
  _mi_heap_malloc_zero(h, padsize - MI_PADDING_SIZE, zero, [o EXCEPT !.fail = FALSE])

UsableFrom(b, p) == b.usable - (p - b.start)

mi_usable_size(h, p) ==
  IF SlotOf(h, p) = 0 THEN 0 ELSE UsableFrom(h.blk[SlotOf(h, p)], p)

\* the usable bytes at pointer p
Contents(h, p) ==
  IF SlotOf(h, p) = 0 THEN <<>>
  ELSE Drop(h.blk[SlotOf(h, p)].data, p - h.blk[SlotOf(h, p)].start)

\* h after writing src at byte from of block s; a write outside a live block
\* is recorded in oob
WriteBlock(h, s, from, src) ==
  IF DataLen(src) = 0 THEN h
  ELSE IF s = 0 THEN [h EXCEPT !.oob = TRUE]
  ELSE IF h.blk[s].st # "live" \/ from + DataLen(src) > h.blk[s].usable
    THEN [h EXCEPT !.oob = TRUE]
  ELSE [h EXCEPT !.blk[s].data = Store(@, from, src)]

\* h after writing src at p + at
WriteAt(h, p, at, src) ==
  WriteBlock(h, SlotOf(h, p), IF SlotOf(h, p) = 0 THEN 0 ELSE (p - h.blk[SlotOf(h, p)].start) + at, src)

FreeBlock(h, s) ==
  IF s = 0 THEN h ELSE [h EXCEPT !.blk[s].st = "freed", !.blk[s].frees = @ + 1]

mi_free(h, p) == IF p = NULL THEN h ELSE FreeBlock(h, SlotOf(h, p))

----------------------------------------------------------------------------
(* Aligned allocation (alloc-aligned.c, lines 17-226) *)

\* a faulty over-allocation, of half the alignment only
OversizeByHalf(size, alignment) == (size + alignment \div 2) % SIZE_MOD

\* size + alignment - 1, in size_t
Oversize(size, alignment) == (size + alignment - 1) % SIZE_MOD

\* the size asked of the base allocator for a very large alignment
HugeOversize(size) == IF size <= MI_SMALL_SIZE_MAX THEN MI_SMALL_SIZE_MAX + 1 ELSE size

\* poffset of block p
POffset(p, alignment, offset) ==
  BitAnd((p + offset) % SIZE_MOD, (alignment - 1) % SIZE_MOD)

\* a faulty adjust, which forgets the offset
AdjustIgnoringOffset(p, alignment, offset) ==
  IF POffset(p, alignment, 0) = 0 THEN 0 ELSE alignment - POffset(p, alignment, 0)

\* bytes from block p to the carved pointer
Adjust(p, alignment, offset) ==
  IF POffset(p, alignment, offset) = 0 THEN 0 ELSE alignment - POffset(p, alignment, offset)

\* bytes zeroed from the carved pointer of a huge-alignment block
ZSize(usable_block_size, diff) ==
  usable_block_size - diff - MI_PADDING_SIZE - (IF MI_PADDING THEN MI_MAX_ALIGN_SIZE ELSE 0)

\* zero the block if needed: only for a very large alignment
ZeroHuge(h, s, aligned_p, zero, alignment) ==
  IF zero /\ alignment > MI_ALIGNMENT_MAX /\ ZSize(h.blk[s].usable, aligned_p - h.blk[s].start) > 0
    THEN WriteBlock(h, s, aligned_p - h.blk[s].start,
                    Fill(ZSize(h.blk[s].usable, aligned_p - h.blk[s].start), 0))
    ELSE h

\* the block of slot s, at p, is handed out as aligned_p
Carve(h, s, p, aligned_p, zero, alignment, path) ==
  Ret(ZeroHuge([h EXCEPT !.blk[s].ptr = aligned_p, !.blk[s].has_aligned = (aligned_p # p)],
               s, aligned_p, zero, alignment),
      aligned_p, path)

\* .. and align within the allocation r
AlignWithin(r, alignment, offset, zero, path) ==
  IF r.ret = NULL THEN Ret(r.h, NULL, path)
  ELSE Carve(r.h, SlotOf(r.h, r.ret), r.ret, r.ret + Adjust(r.ret, alignment, offset),
             zero, alignment, path)

\* guaranteed to fit the alignment constraints by a regular allocation
NaturalFit(size, alignment, offset) ==
  /\ offset = 0
  /\ alignment <= size + MI_PADDING_SIZE
  /\ size + MI_PADDING_SIZE <= MI_MEDIUM_OBJ_SIZE_MAX
  /\ BitAnd(size + MI_PADDING_SIZE, (alignment - 1) % SIZE_MOD) = 0

mi_heap_malloc_zero_aligned_at_fallback(h, size, alignment, offset, zero, o) ==
  IF NaturalFit(size, alignment, offset)
    THEN [_mi_heap_malloc_zero(h, size, zero, o) EXCEPT !.path = "natural"]
  ELSE IF alignment > MI_ALIGNMENT_MAX
    THEN IF offset # 0 THEN Ret(h, NULL, "huge_offset")
         ELSE AlignWithin(_mi_heap_malloc_zero_ex(h, HugeOversize(size), FALSE, alignment, o),
                          alignment, offset, zero, "huge")
  ELSE AlignWithin(_mi_heap_malloc_zero(h, Oversize(size, alignment), zero, o),
                   alignment, offset, zero, "overalloc")

\* a small block is available with just the right alignment
SmallProbe(h, size, alignment, offset, o) ==
  /\ size + MI_PADDING_SIZE <= MI_SMALL_SIZE_MAX
  /\ alignment <= size + MI_PADDING_SIZE
  /\ PageFree(h, size + MI_PADDING_SIZE, o) # NULL
  /\ BitAnd((PageFree(h, size + MI_PADDING_SIZE, o) + offset) % SIZE_MOD,
            (alignment - 1) % SIZE_MOD) = 0

mi_heap_malloc_zero_aligned_at(h, size, alignment, offset, zero, o) ==
  IF alignment = 0 \/ ~_mi_is_power_of_two(alignment) THEN Ret(h, NULL, "invalid")
  ELSE IF size > PTRDIFF_MAX THEN Ret(h, NULL, "too_large")
  ELSE IF SmallProbe(h, size, alignment, offset, o)
    THEN [_mi_page_malloc(h, size + MI_PADDING_SIZE, zero, o) EXCEPT !.path = "small_probe"]
  ELSE mi_heap_malloc_zero_aligned_at_fallback(h, size, alignment, offset, zero, o)

mi_heap_malloc_aligned_at(h, size, alignment, offset, o) ==
  mi_heap_malloc_zero_aligned_at(h, size, alignment, offset, FALSE, o)

\* the condition of the fast path, in the build without and with padding
FastPath(size, alignment) ==
  IF ~MI_PADDING
    THEN _mi_is_power_of_two(size) /\ size >= alignment /\ size <= MI_SMALL_SIZE_MAX
    ELSE /\ \/ alignment = MI_INTPTR_SIZE
            \/ (alignment = MI_MAX_ALIGN_SIZE /\ size > MI_MAX_ALIGN_SIZE \div 2)
         /\ size <= MI_SMALL_SIZE_MAX

mi_heap_malloc_aligned(h, size, alignment, o) ==
  IF ~MI_PADDING /\ ~_mi_is_power_of_two(alignment) THEN Ret(h, NULL, "invalid")
  ELSE IF FastPath(size, alignment)
    THEN [mi_heap_malloc_small(h, size, o) EXCEPT !.path = "fast"]
  ELSE mi_heap_malloc_aligned_at(h, size, alignment, 0, o)

mi_heap_zalloc_aligned_at(h, size, alignment, offset, o) ==
  mi_heap_malloc_zero_aligned_at(h, size, alignment, offset, TRUE, o)

mi_heap_zalloc_aligned(h, size, alignment, o) ==
  mi_heap_zalloc_aligned_at(h, size, alignment, 0, o)

mi_heap_calloc_aligned_at(h, count, size, alignment, offset, o) ==
  IF mi_count_size_overflow(count, size)[1] THEN Ret(h, NULL, "overflow")
  ELSE mi_heap_zalloc_aligned_at(h, mi_count_size_overflow(count, size)[2], alignment, offset, o)

mi_heap_calloc_aligned(h, count, size, alignment, o) ==
  mi_heap_calloc_aligned_at(h, count, size, alignment, 0, o)

\* the wrappers on the default heap
mi_malloc_aligned_at(h, size, alignment, offset, o) ==
  mi_heap_malloc_aligned_at(h, size, alignment, offset, o)

mi_malloc_aligned(h, size, alignment, o) == mi_heap_malloc_aligned(h, size, alignment, o)

mi_zalloc_aligned_at(h, size, alignment, offset, o) ==
  mi_heap_zalloc_aligned_at(h, size, alignment, offset, o)

mi_zalloc_aligned(h, size, alignment, o) == mi_heap_zalloc_aligned(h, size, alignment, o)

mi_calloc_aligned_at(h, count, size, alignment, offset, o) ==
  mi_heap_calloc_aligned_at(h, count, size, alignment, offset, o)

mi_calloc_aligned(h, count, size, alignment, o) ==
  mi_heap_calloc_aligned(h, count, size, alignment, o)

----------------------------------------------------------------------------
(* Aligned re-allocation (alloc-aligned.c, lines 229-321) *)

\* faulty reuse tests: one without the waste limit, one without the alignment
ReuseWhenFits(p, size, newsize, alignment, offset) ==
  /\ newsize <= size
  /\ ((p + offset) % SIZE_MOD) % alignment = 0

ReuseUnaligned(p, size, newsize, alignment, offset) ==
  /\ newsize <= size
  /\ newsize >= size - (size \div 2)

\* reallocation still fits, is aligned and not more than 50% waste
ReuseInPlace(p, size, newsize, alignment, offset) ==
  /\ newsize <= size
  /\ newsize >= size - (size \div 2)
  /\ ((p + offset) % SIZE_MOD) % alignment = 0

\* where the zeroing of the new tail starts: the last word of the old block
ZeroStart(size) == IF size >= MI_INTPTR_SIZE THEN size - MI_INTPTR_SIZE ELSE 0

\* zero the new tail unless the page of newp is already zero
ZeroTail(h, newp, size, newsize, zero) ==
  IF zero /\ newsize > size /\ ~h.blk[SlotOf(h, newp)].is_zero
    THEN WriteAt(h, newp, ZeroStart(size), Fill(newsize - ZeroStart(size), 0))
    ELSE h

\* _mi_memcpy_aligned(newp, p, n)
CopyOld(h, p, newp, n) == WriteAt(h, newp, 0, Take(Contents(h, p), n))

\* a faulty relocation, which zeroes the tail after copying the old bytes
RelocateCopyFirst(h, p, newp, size, newsize, zero) ==
  mi_free(ZeroTail(CopyOld(h, p, newp, Min(size, newsize)), newp, size, newsize, zero), p)

\* zero the tail of newp, copy the old bytes, free the old block
Relocate(h, p, newp, size, newsize, zero) ==
  mi_free(CopyOld(ZeroTail(h, newp, size, newsize, zero), p, newp, Min(size, newsize)), p)

\* a faulty move, which frees the old block before it knows it has a new one
MovedFreeingFirst(r, p, size, newsize, zero, path) ==
  IF r.ret = NULL THEN Ret(mi_free(r.h, p), NULL, path)
  ELSE Ret(Relocate(r.h, p, r.ret, size, newsize, zero), r.ret, path)

\* the new block r was asked for: move there if it is there
Moved(r, p, size, newsize, zero, path) ==
  IF r.ret = NULL THEN Ret(r.h, NULL, path)
  ELSE Ret(Relocate(r.h, p, r.ret, size, newsize, zero), r.ret, path)

\* the unaligned resize primitive of the base allocator
_mi_heap_realloc_zero(h, p, newsize, zero, o) ==
  IF p # NULL /\ newsize <= mi_usable_size(h, p) /\ newsize >= mi_usable_size(h, p) \div 2
    THEN Ret(h, p, "base_inplace")
  ELSE Moved(mi_heap_malloc(h, newsize, o), p, mi_usable_size(h, p), newsize, zero,
             "base_realloc")

mi_heap_realloc_zero_aligned_at(h, p, newsize, alignment, offset, zero, o) ==
  IF alignment <= MI_INTPTR_SIZE THEN _mi_heap_realloc_zero(h, p, newsize, zero, o)
  ELSE IF p = NULL
    THEN mi_heap_malloc_zero_aligned_at(h, newsize, alignment, offset, zero, o)
  ELSE IF ReuseInPlace(p, mi_usable_size(h, p), newsize, alignment, offset)
    THEN Ret(h, p, "inplace")
  ELSE Moved(mi_heap_malloc_aligned_at(h, newsize, alignment, offset, o),
             p, mi_usable_size(h, p), newsize, zero, "relocate")

mi_heap_realloc_zero_aligned(h, p, newsize, alignment, zero, o) ==
  IF alignment <= MI_INTPTR_SIZE THEN _mi_heap_realloc_zero(h, p, newsize, zero, o)
  ELSE mi_heap_realloc_zero_aligned_at(h, p, newsize, alignment, p % alignment, zero, o)

mi_heap_realloc_aligned_at(h, p, newsize, alignment, offset, o) ==
  mi_heap_realloc_zero_aligned_at(h, p, newsize, alignment, offset, FALSE, o)

mi_heap_realloc_aligned(h, p, newsize, alignment, o) ==
  mi_heap_realloc_zero_aligned(h, p, newsize, alignment, FALSE, o)

mi_heap_rezalloc_aligned_at(h, p, newsize, alignment, offset, o) ==
  mi_heap_realloc_zero_aligned_at(h, p, newsize, alignment, offset, TRUE, o)

mi_heap_rezalloc_aligned(h, p, newsize, alignment, o) ==
  mi_heap_realloc_zero_aligned(h, p, newsize, alignment, TRUE, o)

\* a faulty counted reallocation, which multiplies without the overflow check
RecallocUnchecked(h, p, newcount, size, alignment, offset, o) ==
  mi_heap_rezalloc_aligned_at(h, p, (newcount * size) % SIZE_MOD, alignment, offset, o)

mi_heap_recalloc_aligned_at(h, p, newcount, size, alignment, offset, o) ==
  IF mi_count_size_overflow(newcount, size)[1] THEN Ret(h, NULL, "overflow")
  ELSE mi_heap_rezalloc_aligned_at(h, p, mi_count_size_overflow(newcount, size)[2],
                                   alignment, offset, o)

mi_heap_recalloc_aligned(h, p, newcount, size, alignment, o) ==
  IF mi_count_size_overflow(newcount, size)[1] THEN Ret(h, NULL, "overflow")
  ELSE mi_heap_rezalloc_aligned(h, p, mi_count_size_overflow(newcount, size)[2], alignment, o)

\* the wrappers on the default heap
mi_realloc_aligned_at(h, p, newsize, alignment, offset, o) ==
  mi_heap_realloc_aligned_at(h, p, newsize, alignment, offset, o)

mi_realloc_aligned(h, p, newsize, alignment, o) ==
  mi_heap_realloc_aligned(h, p, newsize, alignment, o)

mi_rezalloc_aligned_at(h, p, newsize, alignment, offset, o) ==
  mi_heap_rezalloc_aligned_at(h, p, newsize, alignment, offset, o)

mi_rezalloc_aligned(h, p, newsize, alignment, o) ==
  mi_heap_rezalloc_aligned(h, p, newsize, alignment, o)

mi_recalloc_aligned_at(h, p, newcount, size, alignment, offset, o) ==
  mi_heap_recalloc_aligned_at(h, p, newcount, size, alignment, offset, o)

mi_recalloc_aligned(h, p, newcount, size, alignment, o) ==
  mi_heap_recalloc_aligned(h, p, newcount, size, alignment, o)

----------------------------------------------------------------------------
(* The state machine: one action per exposed function *)

\* what a call keeps of the call before it
Prev(c) ==
  [op |-> c.op, at |-> c.at, size |-> c.size, alignment |-> c.alignment,
   offset |-> c.offset, ret |-> c.ret]

NoCall ==
  [op |-> "init", at |-> FALSE, zero |-> FALSE, count |-> 1, size |-> 0,
   alignment |-> 0, offset |-> 0, p |-> NULL, overflow |-> FALSE,
   before |-> EmptyHeap, ret |-> NULL, path |-> "none",
   prev |-> [op |-> "none", at |-> FALSE, size |-> 0, alignment |-> 0, offset |-> 0,
             ret |-> NULL]]

Init ==
  /\ MI_PADDING \in BOOLEAN
  /\ heap = EmptyHeap
  /\ last = NoCall
  /\ nreallocs = 0

\* the heap is fresh: no call was made yet
Fresh == last.op = "init"

\* an allocation call returned r
Allocated(op, at, zero, count, size, alignment, offset, r) ==
  /\ heap' = r.h
  /\ last' = [op |-> op, at |-> at, zero |-> zero, count |-> count, size |-> size,
              alignment |-> alignment, offset |-> offset, p |-> NULL,
              overflow |-> mi_count_size_overflow(count, size)[1],
              before |-> heap, ret |-> r.ret, path |-> r.path, prev |-> Prev(last)]
  /\ UNCHANGED <<MI_PADDING, nreallocs>>

MallocAlignedAt(Sizes, Aligns, Offsets, Orcs) ==
  /\ Fresh
  /\ \E size \in Sizes, alignment \in Aligns, offset \in Offsets, o \in Orcs :
    Allocated("malloc", TRUE, FALSE, 1, size, alignment, offset,
      mi_malloc_aligned_at(heap, size, alignment, offset, o))

MallocAligned(Sizes, Aligns, Orcs) ==
  /\ Fresh
  /\ \E size \in Sizes, alignment \in Aligns, o \in Orcs :
    Allocated("malloc", FALSE, FALSE, 1, size, alignment, 0,
      mi_malloc_aligned(heap, size, alignment, o))

ZallocAlignedAt(Sizes, Aligns, Offsets, Orcs) ==
  /\ Fresh
  /\ \E size \in Sizes, alignment \in Aligns, offset \in Offsets, o \in Orcs :
    Allocated("zalloc", TRUE, TRUE, 1, size, alignment, offset,
      mi_zalloc_aligned_at(heap, size, alignment, offset, o))

ZallocAligned(Sizes, Aligns, Orcs) ==
  /\ Fresh
  /\ \E size \in Sizes, alignment \in Aligns, o \in Orcs :
    Allocated("zalloc", FALSE, TRUE, 1, size, alignment, 0,
      mi_zalloc_aligned(heap, size, alignment, o))

CallocAlignedAt(Counts, Sizes, Aligns, Offsets, Orcs) ==
  /\ Fresh
  /\ \E count \in Counts, size \in Sizes, alignment \in Aligns, offset \in Offsets,
     o \in Orcs :
    Allocated("calloc", TRUE, TRUE, count, size, alignment, offset,
      mi_calloc_aligned_at(heap, count, size, alignment, offset, o))

CallocAligned(Counts, Sizes, Aligns, Orcs) ==
  /\ Fresh
  /\ \E count \in Counts, size \in Sizes, alignment \in Aligns, o \in Orcs :
    Allocated("calloc", FALSE, TRUE, count, size, alignment, 0,
      mi_calloc_aligned(heap, count, size, alignment, o))

\* the inputs of the allocation calls
AllocSizes ==
  {0, 1, 8, 9, 24, 50, 64, 1016, 1025, 4096, MI_MEDIUM_OBJ_SIZE_MAX, PTRDIFF_MAX + 1}
AllocAligns == {0, 1, 3, 8, 16, 24, 64, 4096, MI_ALIGNMENT_MAX, 2 * MI_ALIGNMENT_MAX}
AllocOffsets == {0, 1, 17}
AllocCounts == {0, 1, 3, 32768}
AllocElems == {0, 8, 32768, 32769}
AllocOracles == Oracle({0, 8, 16}, {0, 32}, BOOLEAN, BOOLEAN)

Next ==
  \/ MallocAlignedAt(AllocSizes, AllocAligns, AllocOffsets, AllocOracles)
  \/ MallocAligned(AllocSizes, AllocAligns, AllocOracles)
  \/ ZallocAlignedAt(AllocSizes, AllocAligns, AllocOffsets, AllocOracles)
  \/ ZallocAligned(AllocSizes, AllocAligns, AllocOracles)
  \/ CallocAlignedAt(AllocCounts, AllocElems, AllocAligns, AllocOffsets, AllocOracles)
  \/ CallocAligned(AllocCounts, AllocElems, AllocAligns, AllocOracles)

Spec == Init /\ [][Next]_vars

----------------------------------------------------------------------------
(* Reallocation calls *)

\* the pointers a caller can pass: NULL and the live blocks' pointers
Ptrs(h) == {NULL} \cup {h.blk[s].ptr : s \in {t \in Slots : h.blk[t].st = "live"}}

\* after the first reallocation the caller goes on resizing the same buffer:
\* the same function, alignment and offset, on the pointer it holds now
Continues(op, at, p, alignment, offset) ==
  \/ nreallocs = 0
  \/ /\ last.op = op
     /\ last.at = at
     /\ last.alignment = alignment
     /\ last.offset = offset
     /\ p = (IF last.ret # NULL THEN last.ret ELSE last.p)

\* a reallocation call returned r
Reallocated(op, at, zero, p, count, size, alignment, offset, r) ==
  /\ heap' = r.h
  /\ last' = [op |-> op, at |-> at, zero |-> zero, count |-> count, size |-> size,
              alignment |-> alignment, offset |-> offset, p |-> p,
              overflow |-> mi_count_size_overflow(count, size)[1],
              before |-> heap, ret |-> r.ret, path |-> r.path, prev |-> Prev(last)]
  /\ nreallocs' = nreallocs + 1
  /\ UNCHANGED MI_PADDING

ReallocAlignedAt(Sizes, Aligns, Offsets, Orcs) ==
  /\ ~Fresh
  /\ nreallocs < MaxReallocs
  /\ \E p \in Ptrs(heap), newsize \in Sizes, alignment \in Aligns, offset \in Offsets, o \in Orcs :
       /\ Continues("realloc", TRUE, p, alignment, offset)
       /\ Reallocated("realloc", TRUE, FALSE, p, 1, newsize, alignment, offset,
            mi_realloc_aligned_at(heap, p, newsize, alignment, offset, o))

ReallocAligned(Sizes, Aligns, Orcs) ==
  /\ ~Fresh
  /\ nreallocs < MaxReallocs
  /\ \E p \in Ptrs(heap), newsize \in Sizes, alignment \in Aligns, o \in Orcs :
       /\ Continues("realloc", FALSE, p, alignment, 0)
       /\ Reallocated("realloc", FALSE, FALSE, p, 1, newsize, alignment, 0,
            mi_realloc_aligned(heap, p, newsize, alignment, o))

RezallocAlignedAt(Sizes, Aligns, Offsets, Orcs) ==
  /\ ~Fresh
  /\ nreallocs < MaxReallocs
  /\ \E p \in Ptrs(heap), newsize \in Sizes, alignment \in Aligns, offset \in Offsets, o \in Orcs :
       /\ Continues("rezalloc", TRUE, p, alignment, offset)
       /\ Reallocated("rezalloc", TRUE, TRUE, p, 1, newsize, alignment, offset,
            mi_rezalloc_aligned_at(heap, p, newsize, alignment, offset, o))

RezallocAligned(Sizes, Aligns, Orcs) ==
  /\ ~Fresh
  /\ nreallocs < MaxReallocs
  /\ \E p \in Ptrs(heap), newsize \in Sizes, alignment \in Aligns, o \in Orcs :
       /\ Continues("rezalloc", FALSE, p, alignment, 0)
       /\ Reallocated("rezalloc", FALSE, TRUE, p, 1, newsize, alignment, 0,
            mi_rezalloc_aligned(heap, p, newsize, alignment, o))

RecallocAlignedAt(Counts, Sizes, Aligns, Offsets, Orcs) ==
  /\ ~Fresh
  /\ nreallocs < MaxReallocs
  /\ \E p \in Ptrs(heap), newcount \in Counts, size \in Sizes, alignment \in Aligns :
       \E offset \in Offsets, o \in Orcs :
         /\ Continues("recalloc", TRUE, p, alignment, offset)
         /\ Reallocated("recalloc", TRUE, TRUE, p, newcount, size, alignment, offset,
              mi_recalloc_aligned_at(heap, p, newcount, size, alignment, offset, o))

RecallocAligned(Counts, Sizes, Aligns, Orcs) ==
  /\ ~Fresh
  /\ nreallocs < MaxReallocs
  /\ \E p \in Ptrs(heap), newcount \in Counts, size \in Sizes, alignment \in Aligns, o \in Orcs :
       /\ Continues("recalloc", FALSE, p, alignment, 0)
       /\ Reallocated("recalloc", FALSE, TRUE, p, newcount, size, alignment, 0,
            mi_recalloc_aligned(heap, p, newcount, size, alignment, o))

\* the inputs of the reallocation runs: the block first allocated ...
FirstSizes == {4, 50}
FirstAligns == {16, 4096}
FirstOffsets == {0, 17}
FirstOracles == Oracle({0, 16}, {0, 32}, {FALSE}, {FALSE})
\* ... and the reallocation calls
NewSizes == {9, 40, 100}
NewCounts == {5, 134217728}
NewElems == {8}
NewAligns == {0, 8, 16, 4096}
NewOffsets == {0, 17}
NewOracles == Oracle({0}, {0}, BOOLEAN, {FALSE})
\* ... and a counted first allocation
FirstCountedAligns == {16}
FirstCountedOffsets == {0}

NextRealloc ==
  \/ MallocAlignedAt(FirstSizes, FirstAligns, FirstOffsets, FirstOracles)
  \/ CallocAlignedAt(NewCounts, NewElems, FirstCountedAligns, FirstCountedOffsets, FirstOracles)
  \/ ReallocAlignedAt(NewSizes, NewAligns, NewOffsets, NewOracles)
  \/ ReallocAligned(NewSizes, NewAligns, NewOracles)
  \/ RezallocAlignedAt(NewSizes, NewAligns, NewOffsets, NewOracles)
  \/ RezallocAligned(NewSizes, NewAligns, NewOracles)
  \/ RecallocAlignedAt(NewCounts, NewElems, NewAligns, NewOffsets, NewOracles)
  \/ RecallocAligned(NewCounts, NewElems, NewAligns, NewOracles)

SpecRealloc == Init /\ [][NextRealloc]_vars

----------------------------------------------------------------------------
(* Properties of the allocation calls *)

\* the powers of two below 2^30, zero not among them
PowersOfTwo == {2 ^ k : k \in 0 .. 29}

IsAlloc == last.op \in {"malloc", "zalloc", "calloc"}

\* count * size of the last call does not fit size_t
Overflows == last.count * last.size > SIZE_MAX

\* the bytes the last call asked for
Requested == IF Overflows THEN 0 ELSE last.count * last.size

\* the block the last call returned, and the bytes from its start to the result
Returned == heap.blk[SlotOf(heap, last.ret)]
Adjustment == last.ret - Returned.start

\* C1: every non-null result r of an aligned allocation call with a power-of-two
\* alignment satisfies (r + offset) mod alignment = 0, on each branch: the small
\* free-block probe, the natural fit, the fast path and the carved over-allocation
AllocationIsAligned ==
  (IsAlloc /\ last.ret # NULL /\ last.alignment \in PowersOfTwo)
    => (last.ret + last.offset) % last.alignment = 0

\* the result was carved out of an over-allocated block, for a nonzero offset
CarvedAtOffset ==
  /\ IsAlloc
  /\ last.path = "overalloc"
  /\ last.ret # NULL
  /\ last.alignment = 4096
  /\ last.offset = 17
  /\ Adjustment > 0
  /\ (last.ret + last.offset) % last.alignment = 0

\* C2: a non-null result lies in a live block with at least the requested bytes
\* behind it: the adjustment is below the alignment and adjustment + size is at
\* most the usable size of the underlying block
AllocationHasRoom ==
  (IsAlloc /\ last.ret # NULL) =>
    /\ SlotOf(heap, last.ret) # 0
    /\ Returned.st = "live"
    /\ Adjustment >= 0
    /\ last.alignment \in PowersOfTwo => Adjustment < last.alignment
    /\ Adjustment + Requested <= Returned.usable
    /\ mi_usable_size(heap, last.ret) >= Requested
    /\ ~heap.oob

\* an over-allocated block whose carved result uses more than half the alignment
CarvedDeep ==
  /\ IsAlloc
  /\ last.path = "overalloc"
  /\ last.ret # NULL
  /\ 2 * Adjustment > last.alignment
  /\ Requested > 0
  /\ Adjustment + Requested <= Returned.usable

\* C3: the zero-filling variants return memory whose first size bytes are all
\* zero, also on the very-large-alignment path
ZeroedAllocationIsZero ==
  (IsAlloc /\ last.zero /\ last.ret # NULL) =>
    /\ DataLen(Contents(heap, last.ret)) >= Requested
    /\ AllZero(Take(Contents(heap, last.ret), Requested))

\* C6: an alignment of zero or not a power of two makes every call return NULL
\* and leave the heap as it was
InvalidAlignmentGivesNull ==
  (~Fresh /\ last.alignment \notin PowersOfTwo)
    => (last.ret = NULL /\ heap = last.before)

----------------------------------------------------------------------------
(* Properties of the reallocation calls *)

IsRealloc == last.op \in {"realloc", "rezalloc", "recalloc"}

\* the usable size of the block passed in, before the call
OldSize == mi_usable_size(last.before, last.p)

\* the block passed in, before and after the call
OldBefore == last.before.blk[SlotOf(last.before, last.p)]
OldAfter == heap.blk[SlotOf(last.before, last.p)]

\* the call gave back the pointer it was passed and changed nothing
KeptInPlace == last.ret = last.p /\ heap = last.before

\* the call failed and changed nothing
FailedUntouched == last.ret = NULL /\ heap = last.before

\* the call moved the data to a block that was unused before, and freed the old
\* block once
MovedAway ==
  /\ last.ret # NULL
  /\ last.ret # last.p
  /\ SlotOf(heap, last.ret) # 0
  /\ Returned.st = "live"
  /\ last.before.blk[SlotOf(heap, last.ret)].st = "unused"
  /\ OldBefore.st = "live"
  /\ OldAfter = [OldBefore EXCEPT !.st = "freed", !.frees = 1]
  /\ \A s \in Slots : s \notin {SlotOf(heap, last.ret), SlotOf(last.before, last.p)}
       => heap.blk[s] = last.before.blk[s]

ReallocKeepsContents ==
  (IsRealloc /\ last.p # NULL /\ last.ret # NULL) =>
    /\ DataLen(Contents(heap, last.ret)) >= Requested
    /\ Take(Contents(heap, last.ret), Min(OldSize, Requested))
         = Take(Contents(last.before, last.p), Min(OldSize, Requested))
    /\ (last.zero /\ Requested > OldSize)
         => AllZero(Slice(Contents(heap, last.ret), OldSize, Requested - OldSize))

\* a zero-filling reallocation grew a block of nonzero bytes into a page that
\* was not zero
GrownWithZeros ==
  /\ last.op = "rezalloc"
  /\ last.path = "relocate"
  /\ last.p # NULL
  /\ last.ret # NULL
  /\ last.ret # last.p
  /\ OldSize >= MI_INTPTR_SIZE
  /\ Requested > OldSize
  /\ ~Returned.is_zero
  /\ ~AllZero(Take(Contents(last.before, last.p), OldSize))
  /\ AllZero(Slice(Contents(heap, last.ret), OldSize, Requested - OldSize))

\* what the uncounted zero-filling call gives for the same heap and total
UncountedAlloc(o) ==
  IF last.at
    THEN mi_zalloc_aligned_at(last.before, Requested, last.alignment, last.offset, o)
    ELSE mi_zalloc_aligned(last.before, Requested, last.alignment, o)

UncountedRealloc(o) ==
  IF last.at
    THEN mi_rezalloc_aligned_at(last.before, last.p, Requested, last.alignment, last.offset, o)
    ELSE mi_rezalloc_aligned(last.before, last.p, Requested, last.alignment, o)

\* C7: a counted call whose count * size overflows returns NULL before anything
\* is allocated, the existing block untouched; otherwise it does what the
\* zero-filling uncounted call does with the total
CountedOverflowIsRejected ==
  /\ (last.op \in {"calloc", "recalloc"} /\ Overflows) => FailedUntouched
  /\ (last.op = "calloc" /\ ~Overflows) =>
       \E o \in FirstOracles : Ret(heap, last.ret, last.path) = UncountedAlloc(o)
  /\ (last.op = "recalloc" /\ ~Overflows) =>
       \E o \in NewOracles : Ret(heap, last.ret, last.path) = UncountedRealloc(o)

\* a counted reallocation of a live block overflowed
CountedOverflowed ==
  /\ last.op = "recalloc"
  /\ Overflows
  /\ last.p # NULL
  /\ OldBefore.st = "live"
  /\ last.ret = NULL
  /\ OldAfter = OldBefore

\* C8: a non-null result r of a reallocation call with a power-of-two alignment
\* satisfies (r + offset) mod alignment = 0, the offset being zero for the
\* calls that take none
ReallocationIsAligned ==
  (IsRealloc /\ last.ret # NULL /\ last.alignment \in PowersOfTwo)
    => (last.ret + last.offset) % last.alignment = 0

\* p was allocated with size 50, alignment 4096 and offset 17, and is resized
\* to 40 bytes with the same alignment and offset
ResizeScenario ==
  /\ last.op = "realloc"
  /\ last.at
  /\ last.size = 40
  /\ last.alignment = 4096
  /\ last.offset = 17
  /\ last.p # NULL
  /\ last.p = last.prev.ret
  /\ last.prev.op = "malloc"
  /\ last.prev.at
  /\ last.prev.size = 50
  /\ last.prev.alignment = 4096
  /\ last.prev.offset = 17

\* C9 as stated: in the scenario (p + 17) mod 4096 = 0 and the resize returns
\* the same pointer p
ResizeReturnsSamePointer ==
  ResizeScenario => ((last.p + 17) % 4096 = 0 /\ KeptInPlace)

\* C9 amended: in the scenario (p + 17) mod 4096 = 0; the resize returns p
\* exactly when the usable size of p is at most 80; otherwise it relocates: NULL
\* with p untouched, or a new r with (r + 17) mod 4096 = 0, the first 40 bytes
\* of p copied and p freed
ResizeReturnsSameOrMoves ==
  ResizeScenario =>
    /\ (last.p + 17) % 4096 = 0
    /\ OldSize >= 50
    /\ OldSize <= 80 => KeptInPlace
    /\ OldSize > 80 =>
         \/ FailedUntouched
         \/ /\ MovedAway
            /\ (last.ret + 17) % 4096 = 0
            /\ Take(Contents(heap, last.ret), 40) = Take(Contents(last.before, last.p), 40)

\* the scenario, on a block with more than 80 usable bytes: the data moved
ResizeMoved ==
  /\ ResizeScenario
  /\ OldSize > 80
  /\ MovedAway

\* the offset the reallocation works with: the one passed, or p mod alignment
\* for the calls that take none
EffectiveOffset == IF last.at THEN last.offset ELSE last.p % last.alignment

\* C10: for an alignment above the word size and a non-null p of usable size S,
\* the call returns p unchanged exactly when new_size <= S, 2 * new_size >= S
\* and (p + offset) mod alignment = 0; otherwise it relocates
InPlaceExactlyWhenFits ==
  (IsRealloc /\ last.alignment > MI_INTPTR_SIZE /\ last.p # NULL /\ ~Overflows) =>
    /\ last.ret = last.p <=>
         /\ Requested <= OldSize
         /\ 2 * Requested >= OldSize
         /\ (last.p + EffectiveOffset) % last.alignment = 0
    /\ last.ret = last.p => (KeptInPlace /\ OldSize <= 2 * Requested)
    /\ last.ret # last.p => (FailedUntouched \/ MovedAway)

\* a block of odd usable size asked to shrink to just under half of it: moved
ShrunkBelowHalf ==
  /\ IsRealloc
  /\ last.alignment > MI_INTPTR_SIZE
  /\ last.p # NULL
  /\ OldSize % 2 = 1
  /\ Requested = OldSize \div 2
  /\ (last.p + EffectiveOffset) % last.alignment = 0
  /\ MovedAway

=============================================================================
